---- MODULE Spec2Model ----
(***************************************************************************)
(* Model of snackager's storage layer: the configuration loader, the       *)
(* storage facade with its S3 and GCS clients, the artifact cache          *)
(* (cacheSnackObj.ts), the upload utility and the S3 redirect utility.     *)
(*                                                                         *)
(* Strings of the program are TLA+ strings; the content of an object is a  *)
(* sequence of bytes (UTF-8 code units, all ASCII here).  A value that the *)
(* program leaves undefined is the record Absent.                          *)
(***************************************************************************)
EXTENDS Integers, Sequences, FiniteSets, TLC

VARIABLES
    env,      \* process.env, a function from variable name to value
    cli,      \* whether process.argv[1] ends with 'cli.js'
    pc,       \* which module of the import chain is evaluated next
    config,   \* the config module's default export
    facade,   \* the storage module's exports: client, artifactsBucket, importsBucket
    awsS3,    \* aws.ts's export `s3`: a real client or the {} stub
    clients,  \* every provider client constructed so far: <<module, variant>>
    store,    \* the active provider's objects, by <<bucket, key>>
    hist,     \* per <<bucket, key>>: the last operation that wrote or deleted there
    ret       \* the last completed operation: arguments, provider calls, outcome

vars == <<env, cli, pc, config, facade, awsS3, clients, store, hist, ret>>

-----------------------------------------------------------------------------
(* Bounds of the model.                                                    *)

\* Longest string value of a descriptor that is enumerated.
MaxValLen == 1
\* How many variables of process.env differ from one of the base profiles.
MaxEnvEdits == 2

-----------------------------------------------------------------------------
(* process.env and the config module                                       *)

Unset == "<unset>"

EnvVars ==
    { "IMPORT_SERVER_URL", "REDIS_URL", "CLOUDFRONT_URL", "API_SERVER_URL",
      "GCS_PROJECT_ID", "USE_GCS", "GCS_BUCKET", "GCS_IMPORTS_BUCKET",
      "AWS_ACCESS_KEY_ID", "AWS_SECRET_ACCESS_KEY",
      "S3_BUCKET", "IMPORTS_S3_BUCKET", "S3_REGION",
      "NODE_ENV", "DISABLE_INSTRUMENTATION", "SENTRY_DSN" }

BucketVars == { "GCS_BUCKET", "GCS_IMPORTS_BUCKET", "S3_BUCKET", "IMPORTS_S3_BUCKET" }

\* The values a variable is given in the enumerated environments.
EnvDomain(v) ==
    CASE v = "USE_GCS"        -> { Unset, "", "1", "false" }
      [] v = "GCS_PROJECT_ID" -> { Unset, "", "proj" }
      [] v = "NODE_ENV"       -> { Unset, "test", "production" }
      [] v \in BucketVars     -> { Unset, "", "b1", "b2" }
      [] OTHER                -> { Unset, "", "v" }

\* JavaScript truthiness of process.env[v]: undefined and '' are falsy.
Truthy(val) == val # Unset /\ val # ""

\* env(varName): throws when the variable is falsy outside test mode and the CLI.
EnvThrows(e, c, v) == ~Truthy(e[v]) /\ ~(e["NODE_ENV"] = "test" \/ c)

\* env(varName, testValue): the value, or testValue ?? 'noop' in test mode.
EnvVal(e, c, v, testValue) ==
    IF Truthy(e[v]) THEN e[v]
    ELSE IF testValue = Unset THEN "noop" ELSE testValue

\* Variant of UseGCS that reads the project identifier alone.
UseGCSProjectOnly(e) == Truthy(e["GCS_PROJECT_ID"])

\* const useGCS = !!process.env.GCS_PROJECT_ID || !!process.env.USE_GCS
UseGCS(e) == Truthy(e["GCS_PROJECT_ID"]) \/ Truthy(e["USE_GCS"])

NoSection == [present |-> FALSE]

\* The variables env() is called on while the config module is evaluated.
RequiredVars(e) ==
    { "IMPORT_SERVER_URL", "REDIS_URL", "CLOUDFRONT_URL", "API_SERVER_URL" }
    \cup (IF UseGCS(e)
          THEN { "GCS_PROJECT_ID", "GCS_BUCKET", "GCS_IMPORTS_BUCKET" }
          ELSE { "AWS_ACCESS_KEY_ID", "AWS_SECRET_ACCESS_KEY",
                 "S3_BUCKET", "IMPORTS_S3_BUCKET", "S3_REGION" })
    \cup (IF ~Truthy(e["DISABLE_INSTRUMENTATION"]) /\ e["NODE_ENV"] = "production"
          THEN { "SENTRY_DSN" } ELSE {})

ConfigThrows(e, c) == \E v \in RequiredVars(e) : EnvThrows(e, c, v)

\* The config object the module exports when no env() call throws.
MakeConfig(e, c) ==
    [ storageBackend |-> IF UseGCS(e) THEN "gcs" ELSE "s3",
      url        |-> EnvVal(e, c, "IMPORT_SERVER_URL", Unset),
      redis      |-> EnvVal(e, c, "REDIS_URL", Unset),
      cloudfront |-> EnvVal(e, c, "CLOUDFRONT_URL", Unset),
      api        |-> EnvVal(e, c, "API_SERVER_URL", "https://test.exp.host"),
      gcs |-> IF UseGCS(e)
              THEN [ present        |-> TRUE,
                     projectId      |-> EnvVal(e, c, "GCS_PROJECT_ID", Unset),
                     bucket         |-> EnvVal(e, c, "GCS_BUCKET", Unset),
                     imports_bucket |-> EnvVal(e, c, "GCS_IMPORTS_BUCKET", Unset) ]
              ELSE NoSection,
      aws |-> IF UseGCS(e) THEN NoSection
              ELSE [ present    |-> TRUE,
                     access_key |-> EnvVal(e, c, "AWS_ACCESS_KEY_ID", Unset),
                     secret_key |-> EnvVal(e, c, "AWS_SECRET_ACCESS_KEY", Unset) ],
      s3  |-> IF UseGCS(e) THEN NoSection
              ELSE [ present        |-> TRUE,
                     bucket         |-> EnvVal(e, c, "S3_BUCKET", Unset),
                     imports_bucket |-> EnvVal(e, c, "IMPORTS_S3_BUCKET", Unset),
                     region         |-> EnvVal(e, c, "S3_REGION", Unset) ],
      sentry |-> IF ~Truthy(e["DISABLE_INSTRUMENTATION"]) /\ e["NODE_ENV"] = "production"
                 THEN [ present |-> TRUE, dsn |-> EnvVal(e, c, "SENTRY_DSN", Unset) ]
                 ELSE NoSection ]

NoConfig == [ storageBackend |-> "none" ]
NoFacade == [ client |-> "none", artifactsBucket |-> Unset, importsBucket |-> Unset ]

-----------------------------------------------------------------------------
(* Descriptors and their serialization (json5.stringify, Buffer.from,      *)
(* buffer.toString, json5.parse)                                           *)

Absent == [kind |-> "absent"]
Some(v) == [kind |-> "some", val |-> v]

\* The characters of the enumerated string values, the ones quoteString treats
\* specially: the two quotes (it picks its quote by counting them) and the
\* backslash.
Alphabet == { "'", "\"", "\\" }

RECURSIVE StringsUpTo(_)
StringsUpTo(n) ==
    IF n = 0 THEN { <<>> }
    ELSE StringsUpTo(n - 1)
         \cup { Append(s, c) : s \in { t \in StringsUpTo(n - 1) : Len(t) = n - 1 },
                               c \in Alphabet }

\* A GitSnackObj: a plain object; its one string property k stands for the
\* record's fields.
Descriptors == { [k |-> s] : s \in StringsUpTo(MaxValLen) }

Count(s, c) == Cardinality({ i \in 1..Len(s) : s[i] = c })

\* json5's quoteString picks the quote that occurs least, the single quote first.
QuoteChar(s) == IF Count(s, "'") <= Count(s, "\"") THEN "'" ELSE "\""

RECURSIVE Escaped(_, _)
\* quoteString's body: the backslash is doubled and the chosen quote escaped.
Escaped(s, q) ==
    IF s = <<>> THEN <<>>
    ELSE (IF Head(s) = "\\" THEN << "\\", "\\" >>
          ELSE IF Head(s) = q THEN << "\\", q >>
          ELSE << Head(s) >>) \o Escaped(Tail(s), q)

QuoteString(s) == << QuoteChar(s) >> \o Escaped(s, QuoteChar(s)) \o << QuoteChar(s) >>

\* json5.stringify(snackObj): {k:'...'} with an unquoted identifier key.
Stringify(d) == << "{", "k", ":" >> \o QuoteString(d.k) \o << "}" >>

RECURSIVE ReadString(_, _, _, _)
\* The lexer's string state from position i on: up to the closing quote q, a
\* backslash taking the next character as it is.
ReadString(t, i, q, acc) ==
    IF i > Len(t) THEN [ok |-> FALSE]
    ELSE IF t[i] = q THEN [ok |-> TRUE, val |-> acc, next |-> i + 1]
    ELSE IF t[i] = "\\"
         THEN IF i + 1 > Len(t) THEN [ok |-> FALSE]
              ELSE ReadString(t, i + 2, q, Append(acc, t[i + 1]))
         ELSE ReadString(t, i + 1, q, Append(acc, t[i]))

\* json5.parse(text) on the texts of the model: an object with the one
\* property k; anything else is a SyntaxError.
Parse(t) ==
    IF Len(t) >= 6 /\ t[1] = "{" /\ t[2] = "k" /\ t[3] = ":" /\ t[4] \in { "'", "\"" }
    THEN LET r == ReadString(t, 5, t[4], <<>>)
         IN  IF r.ok /\ r.next = Len(t) /\ t[r.next] = "}"
             THEN [ok |-> TRUE, val |-> [k |-> r.val]]
             ELSE [ok |-> FALSE]
    ELSE [ok |-> FALSE]

Chars == Alphabet \cup { "{", "}", ":", "k", "a" }

\* UTF-8 code unit of an ASCII character.
Code(c) ==
    CASE c = "{" -> 123 [] c = "}" -> 125 [] c = ":" -> 58 [] c = "k" -> 107
      [] c = "a" -> 97 [] c = "'" -> 39 [] c = "\"" -> 34 [] c = "\\" -> 92

\* Buffer.from(string): the string's UTF-8 bytes.
BufferFrom(t) == [i \in 1..Len(t) |-> Code(t[i])]

\* buffer.toString(): the bytes decoded as UTF-8.
BufferToString(b) == [i \in 1..Len(b) |-> CHOOSE c \in Chars : Code(c) = b[i]]

\* Content written by callers other than the cache: empty, cut off, and a
\* text json5 reads although stringify would not have produced it.
RawBodies ==
    { <<>>,
      BufferFrom(<< "{" >>),
      BufferFrom(<< "{", "k", ":", "\"", "a", "\"", "}" >>) }

Keys == { "x.json" }
Buckets == { "b1", "b2", "noop" }
Slots == Buckets \X Keys

NoObject == [exists |-> FALSE, body |-> <<>>]
Object(body) == [exists |-> TRUE, body |-> body]

-----------------------------------------------------------------------------
(* The provider clients behind the StorageClient interface.  Each operator *)
(* is one method: from the objects st, the arguments and what the provider *)
(* does (fault: which provider call fails) to the objects afterwards, the  *)
(* provider calls issued, what is logged and what the method returns.      *)

Call(api, b, k, acl, public) ==
    [api |-> api, bucket |-> b, key |-> k, acl |-> acl, public |-> public]

Log(level, msg, k) == [level |-> level, msg |-> msg, key |-> k]

\* thrown: a provider call rejected; raised: the rejection left the method.
Outcome(st, calls, log, result, thrown, raised) ==
    [store |-> st, calls |-> calls, log |-> log, result |-> result,
     thrown |-> thrown, raised |-> raised]

\* What the provider's upload acknowledgment may report: the names of the
\* request, or the names as the service spells them in its completion response.
S3Acks(b, k) ==
    { [Location |-> << "s3", b, k >>, Bucket |-> b, Key |-> k],
      [Location |-> << "s3", "bucket@service", "key@service" >>,
       Bucket |-> "bucket@service", Key |-> "key@service"] }

\* ACL: options?.acl || 'public-read'
S3Acl(acl) == IF Truthy(acl) THEN acl ELSE "public-read"

\* Variant of S3Catch: a catch clause that rethrows.
S3CatchRethrows(thrown) == thrown

\* The catch clauses of the S3 client's methods: whether a rejection of the
\* provider call (thrown) leaves the method.
S3Catch(thrown) == FALSE

\* S3StorageClient.uploadFile
S3UploadFile(st, b, k, body, acl, fault, ack) ==
    LET call == Call("s3.upload", b, k, S3Acl(acl), S3Acl(acl) = "public-read")
    IN  IF fault = "write"
        THEN Outcome(st, << call >>,
                     << Log("error", "unable to upload file to S3", k) >>,
                     Absent, TRUE, S3Catch(TRUE))
        ELSE Outcome([st EXCEPT ![<< b, k >>] = Object(body)], << call >>, <<>>,
                     Some([location |-> ack.Location,
                           bucket   |-> ack.Bucket,
                           key      |-> ack.Key]), FALSE, FALSE)

\* Variant of S3BodyTruthy: the test of a string, which is falsy when empty.
S3BodyTruthyNonEmpty(body) == Len(body) > 0

\* if (result.Body): the Body is a Buffer, an object, truthy even when empty.
S3BodyTruthy(body) == TRUE

\* S3StorageClient.getFile: getObject rejects for a key that holds nothing.
S3GetFile(st, b, k, fault) ==
    LET call == Call("s3.getObject", b, k, "", FALSE)
    IN  IF fault = "read" \/ ~st[<< b, k >>].exists
        THEN Outcome(st, << call >>, <<>>, Absent, TRUE, S3Catch(TRUE))
        ELSE IF S3BodyTruthy(st[<< b, k >>].body)
             THEN Outcome(st, << call >>, <<>>, Some(st[<< b, k >>].body), FALSE, FALSE)
             ELSE Outcome(st, << call >>, <<>>, Absent, FALSE, FALSE)

\* S3StorageClient.deleteFile: deleting a key that holds nothing succeeds.
S3DeleteFile(st, b, k, fault) ==
    LET call == Call("s3.deleteObject", b, k, "", FALSE)
    IN  IF fault = "delete"
        THEN Outcome(st, << call >>, <<>>, Absent, TRUE, S3Catch(TRUE))
        ELSE Outcome([st EXCEPT ![<< b, k >>] = NoObject], << call >>, <<>>, Absent, FALSE, FALSE)

\* S3StorageClient.fileExists: headObject rejects for a key that holds nothing.
S3FileExists(st, b, k, fault) ==
    LET call == Call("s3.headObject", b, k, "", FALSE)
    IN  IF fault = "probe" \/ ~st[<< b, k >>].exists
        THEN Outcome(st, << call >>, <<>>, FALSE, TRUE, S3Catch(TRUE))
        ELSE Outcome(st, << call >>, <<>>, TRUE, FALSE, FALSE)

\* The catch clauses of the GCS client's methods.
GCSCatch(thrown) == FALSE

\* Variant of GCSUploadFile that makes the object public before it is saved,
\* so that a failed make-public call leaves nothing written.
GCSUploadFilePublicFirst(st, b, k, body, acl, fault) ==
    LET save   == Call("gcs.save", b, k, "", acl = "public-read")
        public == Call("gcs.makePublic", b, k, "", TRUE)
        failed == << Log("error", "unable to upload file to GCS", k) >>
        saved  == [st EXCEPT ![<< b, k >>] = Object(body)]
        echo   == Some([location |-> << "https://storage.googleapis.com", b, k >>,
                        bucket |-> b, key |-> k])
    IN  IF acl = "public-read"
        THEN IF fault = "makePublic"
             THEN Outcome(st, << public >>, failed, Absent, TRUE, GCSCatch(TRUE))
             ELSE IF fault = "write"
                  THEN Outcome(st, << public, save >>, failed, Absent, TRUE, GCSCatch(TRUE))
                  ELSE Outcome(saved, << public, save >>, <<>>, echo, FALSE, FALSE)
        ELSE IF fault = "write"
             THEN Outcome(st, << save >>, failed, Absent, TRUE, GCSCatch(TRUE))
             ELSE Outcome(saved, << save >>, <<>>, echo, FALSE, FALSE)

\* GCSStorageClient.uploadFile: file.save, then file.makePublic when asked.
GCSUploadFile(st, b, k, body, acl, fault) ==
    LET save   == Call("gcs.save", b, k, "", acl = "public-read")
        public == Call("gcs.makePublic", b, k, "", TRUE)
        failed == << Log("error", "unable to upload file to GCS", k) >>
        saved  == [st EXCEPT ![<< b, k >>] = Object(body)]
        echo   == Some([location |-> << "https://storage.googleapis.com", b, k >>,
                        bucket |-> b, key |-> k])
    IN  IF fault = "write" THEN Outcome(st, << save >>, failed, Absent, TRUE, GCSCatch(TRUE))
        ELSE IF acl = "public-read"
             THEN IF fault = "makePublic"
                  THEN Outcome(saved, << save, public >>, failed, Absent, TRUE, GCSCatch(TRUE))
                  ELSE Outcome(saved, << save, public >>, <<>>, echo, FALSE, FALSE)
             ELSE Outcome(saved, << save >>, <<>>, echo, FALSE, FALSE)

\* GCSStorageClient.getFile: download rejects for a missing object.
GCSGetFile(st, b, k, fault) ==
    LET call == Call("gcs.download", b, k, "", FALSE)
    IN  IF fault = "read" \/ ~st[<< b, k >>].exists
        THEN Outcome(st, << call >>, <<>>, Absent, TRUE, GCSCatch(TRUE))
        ELSE Outcome(st, << call >>, <<>>, Some(st[<< b, k >>].body), FALSE, FALSE)

\* GCSStorageClient.deleteFile: delete rejects for a missing object.
GCSDeleteFile(st, b, k, fault) ==
    LET call == Call("gcs.delete", b, k, "", FALSE)
    IN  IF fault = "delete" \/ ~st[<< b, k >>].exists
        THEN Outcome(st, << call >>, <<>>, Absent, TRUE, GCSCatch(TRUE))
        ELSE Outcome([st EXCEPT ![<< b, k >>] = NoObject], << call >>, <<>>, Absent, FALSE, FALSE)

\* GCSStorageClient.fileExists: exists answers false for a missing object.
GCSFileExists(st, b, k, fault) ==
    LET call == Call("gcs.exists", b, k, "", FALSE)
    IN  IF fault = "probe"
        THEN Outcome(st, << call >>, <<>>, FALSE, TRUE, GCSCatch(TRUE))
        ELSE Outcome(st, << call >>, <<>>, st[<< b, k >>].exists, FALSE, FALSE)

\* What the provider may answer an upload with: which call fails, if any,
\* and the acknowledgment of a write that succeeds (GCS's is not read).
UploadReplies(client, acl, b, k) ==
    LET none == [Location |-> <<>>, Bucket |-> b, Key |-> k]
    IN  { [fault |-> "write", ack |-> none] }
        \cup (IF client = "gcs"
              THEN { [fault |-> "none", ack |-> none] }
                   \cup (IF acl = "public-read"
                         THEN { [fault |-> "makePublic", ack |-> none] } ELSE {})
              ELSE { [fault |-> "none", ack |-> a] : a \in S3Acks(b, k) })

\* storageClient.uploadFile on the facade's client.
UploadFile(client, st, b, k, body, acl, fault, ack) ==
    IF client = "gcs" THEN GCSUploadFile(st, b, k, body, acl, fault)
    ELSE S3UploadFile(st, b, k, body, acl, fault, ack)

\* storageClient.getFile
GetFile(client, st, b, k, fault) ==
    IF client = "gcs" THEN GCSGetFile(st, b, k, fault) ELSE S3GetFile(st, b, k, fault)

\* storageClient.deleteFile
DeleteFile(client, st, b, k, fault) ==
    IF client = "gcs" THEN GCSDeleteFile(st, b, k, fault) ELSE S3DeleteFile(st, b, k, fault)

\* storageClient.fileExists
FileExists(client, st, b, k, fault) ==
    IF client = "gcs" THEN GCSFileExists(st, b, k, fault) ELSE S3FileExists(st, b, k, fault)

-----------------------------------------------------------------------------
(* Process start: the modules of the import chain, evaluated once each     *)

\* The constructors' checks: S3StorageClient needs config.aws and config.s3,
\* GCSStorageClient needs config.gcs.
StorageThrows(cfg) ==
    IF cfg.storageBackend = "gcs" THEN ~cfg.gcs.present
    ELSE ~cfg.aws.present \/ ~cfg.s3.present

\* The storage module's exports: the client of the configured backend and the
\* two bucket names of that backend.
MakeFacade(cfg) ==
    [ client          |-> IF cfg.storageBackend = "gcs" THEN "gcs" ELSE "s3",
      artifactsBucket |-> IF cfg.storageBackend = "gcs" THEN cfg.gcs.bucket
                          ELSE cfg.s3.bucket,
      importsBucket   |-> IF cfg.storageBackend = "gcs" THEN cfg.gcs.imports_bucket
                          ELSE cfg.s3.imports_bucket ]

\* config.ts: the module throws when an env() call does.
LoadConfig ==
    /\ pc = "config"
    /\ IF ConfigThrows(env, cli)
       THEN pc' = "failed" /\ UNCHANGED config
       ELSE pc' = "storage" /\ config' = MakeConfig(env, cli)
    /\ UNCHANGED << env, cli, facade, awsS3, clients, store, hist, ret >>

\* The storage module: constructs the one client and exports the buckets.
LoadStorage ==
    /\ pc = "storage"
    /\ IF StorageThrows(config)
       THEN pc' = "failed" /\ UNCHANGED << facade, clients >>
       ELSE /\ pc' = "aws"
            /\ facade' = MakeFacade(config)
            /\ clients' = clients \cup { << "storage", MakeFacade(config).client >> }
    /\ UNCHANGED << env, cli, config, awsS3, store, hist, ret >>

\* aws.ts: export const s3 = backend === 's3' ? new aws.S3() : {}
LoadAws ==
    /\ pc = "aws"
    /\ pc' = "running"
    /\ IF config.storageBackend = "s3"
       THEN awsS3' = "client" /\ clients' = clients \cup { << "aws", "s3" >> }
       ELSE awsS3' = "stub" /\ UNCHANGED clients
    /\ UNCHANGED << env, cli, config, facade, store, hist, ret >>

\* gcs.ts, evaluated when a module of the start imports it, after the config
\* module it imports: new Storage(...) whatever the backend is, then the two
\* bucket handles.  Without config.gcs the names are '', for which the
\* provider library's bucket() either throws or returns a handle.
LoadGcs ==
    /\ pc \in { "storage", "aws" }
    /\ << "gcs", "gcs" >> \notin clients
    /\ clients' = clients \cup { << "gcs", "gcs" >> }
    /\ \E thrown \in (IF config.gcs.present THEN { FALSE } ELSE BOOLEAN) :
          pc' = IF thrown THEN "failed" ELSE pc
    /\ UNCHANGED << env, cli, config, facade, awsS3, store, hist, ret >>

-----------------------------------------------------------------------------
(* The operations of the running process                                   *)

Acls == { Unset, "public-read", "private" }

NoDescriptor == [k |-> <<>>]
Other == [kind |-> "other", body |-> <<>>, d |-> NoDescriptor]
Uploaded(body) == [kind |-> "uploaded", body |-> body, d |-> NoDescriptor]
Cached(body, d) == [kind |-> "cached", body |-> body, d |-> d]
Removed(clean) ==
    [kind |-> IF clean THEN "removed" ELSE "removeFailed", body |-> <<>>, d |-> NoDescriptor]

NoRet == [op |-> "none"]

Ret(op, b, k, acl, body, d, fault, pre, out, result, raised, message) ==
    [ op |-> op, bucket |-> b, key |-> k, acl |-> acl, body |-> body, d |-> d,
      fault |-> fault, thrown |-> out.thrown, pre |-> pre,
      calls |-> out.calls, log |-> out.log,
      result |-> result, raised |-> raised, message |-> message ]

Running == pc = "running"

\* storageClient.uploadFile(bucket, key, body, { acl }) called on the facade.
CallUploadFile ==
    /\ Running
    /\ \E b \in { facade.artifactsBucket, facade.importsBucket }, k \in Keys,
          body \in RawBodies, acl \in Acls :
       \E reply \in UploadReplies(facade.client, acl, b, k) :
          LET fault == reply.fault
              out == UploadFile(facade.client, store, b, k, body, acl, fault, reply.ack)
          IN  /\ store' = out.store
              /\ hist' = [hist EXCEPT ![<< b, k >>] =
                            IF out.result.kind = "some" THEN Uploaded(body) ELSE Other]
              /\ ret' = Ret("uploadFile", b, k, acl, body, NoDescriptor, fault, Other,
                            out, out.result, out.raised, <<>>)
    /\ UNCHANGED << env, cli, pc, config, facade, awsS3, clients >>

\* storageClient.getFile(bucket, key)
CallGetFile ==
    /\ Running
    /\ \E b \in { facade.artifactsBucket, facade.importsBucket }, k \in Keys,
          fault \in { "none", "read" } :
          LET out == GetFile(facade.client, store, b, k, fault)
          IN  ret' = Ret("getFile", b, k, Unset, <<>>, NoDescriptor, fault,
                         hist[<< b, k >>], out, out.result, out.raised, <<>>)
    /\ UNCHANGED << env, cli, pc, config, facade, awsS3, clients, store, hist >>

\* storageClient.deleteFile(bucket, key)
CallDeleteFile ==
    /\ Running
    /\ \E b \in { facade.artifactsBucket, facade.importsBucket }, k \in Keys,
          fault \in { "none", "delete" } :
          LET out == DeleteFile(facade.client, store, b, k, fault)
          IN  /\ store' = out.store
              /\ hist' = [hist EXCEPT ![<< b, k >>] = Other]
              /\ ret' = Ret("deleteFile", b, k, Unset, <<>>, NoDescriptor, fault, Other,
                            out, out.result, out.raised, <<>>)
    /\ UNCHANGED << env, cli, pc, config, facade, awsS3, clients >>

\* storageClient.fileExists(bucket, key)
CallFileExists ==
    /\ Running
    /\ \E b \in { facade.artifactsBucket, facade.importsBucket }, k \in Keys,
          fault \in { "none", "probe" } :
          LET out == FileExists(facade.client, store, b, k, fault)
          IN  ret' = Ret("fileExists", b, k, Unset, <<>>, NoDescriptor, fault,
                         hist[<< b, k >>], out, out.result, out.raised, <<>>)
    /\ UNCHANGED << env, cli, pc, config, facade, awsS3, clients, store, hist >>

\* Variant of GetCachedCatch: a catch clause that rethrows.
GetCachedCatchRethrows(thrown) == thrown

\* getCachedObj's catch clause: whether a rejection or a SyntaxError leaves it.
GetCachedCatch(thrown) == FALSE

\* What getCachedObj(filename) returns for the outcome of its getFile call.
GetCachedResult(out) ==
    IF out.raised \/ out.result.kind = "absent" THEN Absent
    ELSE LET parsed == Parse(BufferToString(out.result.val))
         IN  IF parsed.ok THEN Some(parsed.val) ELSE Absent

\* Whether something is thrown inside getCachedObj's try block.
GetCachedThrown(out) ==
    \/ out.raised
    \/ out.result.kind = "some" /\ ~Parse(BufferToString(out.result.val)).ok

\* getCachedObj(filename)
GetCachedObj ==
    /\ Running
    /\ \E f \in Keys, fault \in { "none", "read" } :
          LET out == GetFile(facade.client, store, facade.importsBucket, f, fault)
          IN  ret' = Ret("getCachedObj", facade.importsBucket, f, Unset, <<>>, NoDescriptor,
                         fault, hist[<< facade.importsBucket, f >>], out,
                         GetCachedResult(out),
                         GetCachedThrown(out) /\ GetCachedCatch(TRUE), <<>>)
    /\ UNCHANGED << env, cli, pc, config, facade, awsS3, clients, store, hist >>

\* Variant of CacheBody: the value written between quotes as it is, unescaped.
CacheBodyUnescaped(d) == BufferFrom(<< "{", "k", ":", "'" >> \o d.k \o << "'", "}" >>)

\* The body cacheObj writes: Buffer.from(json5.stringify(snackObj)).
CacheBody(d) == BufferFrom(Stringify(d))

\* Variant of CacheObjFails without the test of the upload's result.
CacheObjFailsOnThrowOnly(out) == out.raised

\* Whether cacheObj's try block throws: the upload rejected, or returned undefined.
CacheObjFails(out) == out.raised \/ out.result.kind = "absent"

\* The message of the error cacheObj throws: 'CacheObj failure: ' + e.message,
\* as its parts.
CacheObjMessage(out, f) ==
    << "CacheObj failure: ",
       IF out.raised THEN "provider error" ELSE "Failed to upload file" >>

\* cacheObj(snackObj, filename)
CacheObj ==
    /\ Running
    /\ \E d \in Descriptors, f \in Keys :
       \E reply \in UploadReplies(facade.client, "public-read", facade.importsBucket, f) :
          LET b   == facade.importsBucket
              fault == reply.fault
              out == UploadFile(facade.client, store, b, f, CacheBody(d),
                                "public-read", fault, reply.ack)
              logged == IF CacheObjFails(out)
                        THEN [out EXCEPT !.log = Append(@,
                                 Log("error", "unable to upload file to storage", f))]
                        ELSE out
          IN  /\ store' = out.store
              /\ hist' = [hist EXCEPT ![<< b, f >>] =
                            IF CacheObjFails(out) THEN Other ELSE Cached(CacheBody(d), d)]
              /\ ret' = Ret("cacheObj", b, f, "public-read", CacheBody(d), d, fault, Other,
                            logged, Absent, CacheObjFails(out),
                            IF CacheObjFails(out) THEN CacheObjMessage(out, f) ELSE <<>>)
    /\ UNCHANGED << env, cli, pc, config, facade, awsS3, clients >>

\* removeFromCache's catch clause.
RemoveCatch(thrown) == FALSE

\* Variant of RemoveFromCache that deletes from the artifacts bucket.
RemoveFromArtifacts ==
    /\ Running
    /\ \E f \in Keys, fault \in { "none", "delete" } :
          LET b   == facade.importsBucket
              out == DeleteFile(facade.client, store, facade.artifactsBucket, f, fault)
          IN  /\ store' = out.store
              /\ hist' = [hist EXCEPT ![<< b, f >>] = Removed(~out.thrown)]
              /\ ret' = Ret("removeFromCache", b, f, Unset, <<>>, NoDescriptor, fault,
                            Other, out, Absent, out.raised /\ RemoveCatch(TRUE), <<>>)
    /\ UNCHANGED << env, cli, pc, config, facade, awsS3, clients >>

\* removeFromCache(filename)
RemoveFromCache ==
    /\ Running
    /\ \E f \in Keys, fault \in { "none", "delete" } :
          LET b   == facade.importsBucket
              out == DeleteFile(facade.client, store, b, f, fault)
          IN  /\ store' = out.store
              /\ hist' = [hist EXCEPT ![<< b, f >>] = Removed(~out.thrown)]
              /\ ret' = Ret("removeFromCache", b, f, Unset, <<>>, NoDescriptor, fault,
                            Other, out, Absent, out.raised /\ RemoveCatch(TRUE), <<>>)
    /\ UNCHANGED << env, cli, pc, config, facade, awsS3, clients >>

\* uploadFile(key, body) of utils/uploadFile.ts: the artifacts bucket, public-read.
UploadArtifact ==
    /\ Running
    /\ \E k \in Keys, body \in RawBodies :
       \E reply \in UploadReplies(facade.client, "public-read", facade.artifactsBucket, k) :
          LET b   == facade.artifactsBucket
              fault == reply.fault
              out == UploadFile(facade.client, store, b, k, body, "public-read", fault,
                                reply.ack)
          IN  /\ store' = out.store
              /\ hist' = [hist EXCEPT ![<< b, k >>] =
                            IF out.result.kind = "some" THEN Uploaded(body) ELSE Other]
              /\ ret' = Ret("uploadArtifact", b, k, "public-read", body, NoDescriptor,
                            fault, Other, out, out.result, out.raised, <<>>)
    /\ UNCHANGED << env, cli, pc, config, facade, awsS3, clients >>

Destinations == { "dest" }

\* Variant of RedirectCatch: a catch clause that rethrows.
RedirectCatchRethrows(thrown) == thrown

\* addS3Redirect's catch clause.
RedirectCatch(thrown) == FALSE

\* addS3Redirect's guard: storageBackend !== 's3' || !config.s3
RedirectUnsupported(cfg) == cfg.storageBackend # "s3" \/ ~cfg.s3.present

\* addS3Redirect(key, destination): the outcome of its putObject.
RedirectOutcome(cfg, st, k, dest, fault) ==
    IF RedirectUnsupported(cfg)
    THEN Outcome(st, <<>>,
                 << Log("warn", "S3 redirect not supported with current storage backend", k) >>,
                 Absent, FALSE, FALSE)
    ELSE LET call == Call("s3.putObject", cfg.s3.bucket, k, "public-read", TRUE)
         IN  IF fault = "write"
             THEN Outcome(st, << call >>, << Log("error", "unable to add s3 redirect", k) >>,
                          Absent, TRUE, RedirectCatch(TRUE))
             ELSE Outcome([st EXCEPT ![<< cfg.s3.bucket, k >>] = Object(<<>>)],
                          << call >>, <<>>,
                          Some([ETag |-> "etag", redirect |-> << "/", dest >>]),
                          FALSE, FALSE)

\* addS3Redirect(key, destination)
AddS3Redirect ==
    /\ Running
    /\ \E k \in Keys, dest \in Destinations, fault \in { "none", "write" } :
          LET out == RedirectOutcome(config, store, k, dest, fault)
              b   == IF RedirectUnsupported(config) THEN Unset ELSE config.s3.bucket
          IN  /\ store' = out.store
              /\ hist' = IF out.calls = <<>> THEN hist
                         ELSE [hist EXCEPT ![<< b, k >>] = Other]
              /\ ret' = Ret("addS3Redirect", b, k, Unset, <<>>, NoDescriptor, fault, Other,
                            out, out.result, out.raised, <<>>)
    /\ UNCHANGED << env, cli, pc, config, facade, awsS3, clients >>

-----------------------------------------------------------------------------
(* Specifications                                                          *)

AllUnset == [v \in EnvVars |-> Unset]

\* A production deployment on S3.
ProfileS3 ==
    [v \in EnvVars |->
        CASE v \in { "GCS_PROJECT_ID", "USE_GCS", "GCS_BUCKET", "GCS_IMPORTS_BUCKET",
                     "DISABLE_INSTRUMENTATION" } -> Unset
          [] v = "S3_BUCKET" -> "b1"
          [] v = "IMPORTS_S3_BUCKET" -> "b2"
          [] v = "NODE_ENV" -> "production"
          [] OTHER -> "v"]

\* A production deployment on GCS.
ProfileGCS ==
    [v \in EnvVars |->
        CASE v \in { "USE_GCS", "AWS_ACCESS_KEY_ID", "AWS_SECRET_ACCESS_KEY", "S3_BUCKET",
                     "IMPORTS_S3_BUCKET", "S3_REGION", "DISABLE_INSTRUMENTATION" } -> Unset
          [] v = "GCS_PROJECT_ID" -> "proj"
          [] v = "GCS_BUCKET" -> "b1"
          [] v = "GCS_IMPORTS_BUCKET" -> "b2"
          [] v = "NODE_ENV" -> "production"
          [] OTHER -> "v"]

\* The test suite: nothing but NODE_ENV, every field the placeholder 'noop'.
ProfileTest == [AllUnset EXCEPT !["NODE_ENV"] = "test"]

Profiles == { ProfileS3, ProfileGCS, ProfileTest }

\* The environments the running process is explored in.
EnvSample ==
    Profiles \cup { [ProfileTest EXCEPT !["USE_GCS"] = "1"],
                    [ProfileS3 EXCEPT !["S3_REGION"] = Unset] }

Boot(e, c) ==
    /\ env = e
    /\ cli = c
    /\ pc = "config"
    /\ config = NoConfig
    /\ facade = NoFacade
    /\ awsS3 = "unloaded"
    /\ clients = {}
    /\ store = [s \in Slots |-> NoObject]
    /\ hist = [s \in Slots |-> Other]
    /\ ret = NoRet

Init == \E e \in EnvSample : Boot(e, FALSE)

Start == LoadConfig \/ LoadStorage \/ LoadAws \/ LoadGcs

Next ==
    \/ Start
    \/ CallUploadFile \/ CallGetFile \/ CallDeleteFile \/ CallFileExists
    \/ GetCachedObj \/ CacheObj \/ RemoveFromCache
    \/ UploadArtifact \/ AddS3Redirect

Spec == Init /\ [][Next]_vars

\* The variables edited in a profile: at most MaxEnvEdits of them.
RECURSIVE EditSets(_)
EditSets(n) ==
    IF n = 0 THEN { {} }
    ELSE EditSets(n - 1) \cup { S \cup { v } : S \in EditSets(n - 1), v \in EnvVars }

Edited(base, S, f) == [v \in EnvVars |-> IF v \in S THEN f[v] ELSE base[v]]

InitStart ==
    \E base \in Profiles, S \in EditSets(MaxEnvEdits), c \in BOOLEAN :
    \E f \in [S -> UNION { EnvDomain(v) : v \in EnvVars }] :
        /\ \A v \in S : f[v] \in EnvDomain(v)
        /\ Boot(Edited(base, S, f), c)

\* Process start alone, over every enumerated environment.
SpecStart == InitStart /\ [][Start]_vars

-----------------------------------------------------------------------------
(* Properties                                                              *)

\* The object at the place the last operation addressed.
Target == store[<< ret.bucket, ret.key >>]

\* Whether some provider call of the last operation made the object public.
MadePublic == \E i \in DOMAIN ret.calls : ret.calls[i].public

\* C1: a getCachedObj(f) that follows a cacheObj(d, f) which completed without
\* raising, with no write or delete to (imports bucket, f) in between and no
\* provider error of its own, returns a descriptor equal to d.
C1_CacheRoundTrip ==
    (ret.op = "getCachedObj" /\ ret.pre.kind = "cached" /\ ret.fault = "none")
        => ret.result = Some(ret.pre.d)

\* A round trip of a descriptor whose value needs escaping has happened.
C1_Witness ==
    /\ ret.op = "getCachedObj" /\ ret.pre.kind = "cached" /\ ret.fault = "none"
    /\ ret.pre.d.k # <<>>
    /\ ret.result = Some(ret.pre.d)

\* C2 as stated: cacheObj raises whenever the underlying write fails, and the
\* message of the raised error contains the filename.
C2_MessageNamesFile ==
    (ret.op = "cacheObj" /\ ret.fault # "none")
        => ret.raised /\ \E i \in DOMAIN ret.message : ret.message[i] = ret.key

\* C2, amended: cacheObj raises exactly when the underlying write fails; the
\* message is 'CacheObj failure: ' followed by the cause's message, 'Failed to
\* upload file', and the filename goes to the error log record only.
C2_CacheObjRaises ==
    ret.op = "cacheObj" =>
        /\ ret.raised <=> ret.fault # "none"
        /\ ret.raised =>
              /\ ret.message = << "CacheObj failure: ", "Failed to upload file" >>
              /\ \E i \in DOMAIN ret.log :
                    ret.log[i] = Log("error", "unable to upload file to storage", ret.key)

\* A cacheObj whose write failed after the object was saved has raised.
C2_Witness == ret.op = "cacheObj" /\ ret.fault = "makePublic" /\ ret.raised

\* C3: getCachedObj never raises; it returns absent when the file is missing,
\* when the read fails and when the stored bytes do not parse, and returns a
\* descriptor only when the read succeeded and the bytes parsed.
C3_GetCachedNeverRaises ==
    ret.op = "getCachedObj" =>
        /\ ~ret.raised
        /\ (\/ ~Target.exists
            \/ ret.fault = "read"
            \/ ~Parse(BufferToString(Target.body)).ok) => ret.result.kind = "absent"
        /\ ret.result.kind = "some" =>
              /\ Target.exists /\ ret.fault = "none"
              /\ Parse(BufferToString(Target.body)).ok
              /\ ret.result.val = Parse(BufferToString(Target.body)).val

\* getCachedObj has read stored bytes that do not parse, and returned absent.
C3_Witness ==
    /\ ret.op = "getCachedObj" /\ ret.fault = "none" /\ Target.exists
    /\ ~Parse(BufferToString(Target.body)).ok
    /\ ret.result.kind = "absent" /\ ~ret.raised

ClientOps == { "uploadFile", "getFile", "deleteFile", "fileExists" }

\* C4: for both variants no provider error of uploadFile, getFile, deleteFile
\* or fileExists reaches the caller: uploadFile and getFile return absent,
\* deleteFile completes with no result, fileExists returns false, also for a
\* key never written.
C4_ClientNeverRaises ==
    ret.op \in ClientOps =>
        /\ ~ret.raised
        /\ ret.thrown => ret.result = (IF ret.op = "fileExists" THEN FALSE ELSE Absent)
        /\ (ret.op \in { "getFile", "fileExists" } /\ ~Target.exists)
              => ret.result = (IF ret.op = "fileExists" THEN FALSE ELSE Absent)

\* fileExists on the S3 client has answered false for a key that holds nothing.
C4_Witness ==
    /\ ret.op = "fileExists" /\ facade.client = "s3" /\ ret.fault = "none"
    /\ ~Target.exists /\ ret.thrown /\ ret.result = FALSE /\ ~ret.raised

\* C5: a getFile(bucket, key) that follows an uploadFile(bucket, key, body)
\* which returned a result, with no write or delete to (bucket, key) in
\* between and no provider error of its own, returns bytes identical to body.
C5_UploadThenGet ==
    (ret.op = "getFile" /\ ret.pre.kind \in { "uploaded", "cached" } /\ ret.fault = "none")
        => ret.result = Some(ret.pre.body)

\* The S3 client has returned an empty body that was uploaded.
C5_Witness ==
    /\ ret.op = "getFile" /\ facade.client = "s3" /\ ret.fault = "none"
    /\ ret.pre.kind = "uploaded" /\ ret.pre.body = <<>>
    /\ ret.result = Some(<<>>)

\* C6 as stated: after removeFromCache(f) has completed, a getCachedObj(f)
\* with no cacheObj(..., f) in between returns absent.
C6_RemovedThenAbsent ==
    (ret.op = "getCachedObj" /\ ret.pre.kind \in { "removed", "removeFailed" })
        => ret.result.kind = "absent"

\* C6, amended: after a removeFromCache(f) whose provider delete did not fail,
\* a getCachedObj(f) with no write to (imports bucket, f) in between returns
\* absent.
C6_DeletedThenAbsent ==
    (ret.op = "getCachedObj" /\ ret.pre.kind = "removed") => ret.result.kind = "absent"

\* getCachedObj has run, without a provider error, after a removal that succeeded.
C6_Witness ==
    /\ ret.op = "getCachedObj" /\ ret.pre.kind = "removed" /\ ret.fault = "none"
    /\ ret.result.kind = "absent"

\* C7: the backend is gcs exactly when GCS_PROJECT_ID or USE_GCS is given in
\* the environment, whatever the other variables are, and the facade's client
\* and bucket names are those of that backend.
C7_BackendSelection ==
    /\ pc \in { "storage", "aws", "running" } =>
          /\ config.storageBackend =
                (IF Truthy(env["GCS_PROJECT_ID"]) \/ Truthy(env["USE_GCS"])
                 THEN "gcs" ELSE "s3")
          /\ config.gcs.present <=> config.storageBackend = "gcs"
          /\ config.s3.present <=> config.storageBackend = "s3"
    /\ pc \in { "aws", "running" } =>
          /\ facade.client = config.storageBackend
          /\ << "storage", config.storageBackend >> \in clients
          /\ facade.artifactsBucket =
                (IF config.storageBackend = "gcs" THEN config.gcs.bucket
                 ELSE config.s3.bucket)
          /\ facade.importsBucket =
                (IF config.storageBackend = "gcs" THEN config.gcs.imports_bucket
                 ELSE config.s3.imports_bucket)

\* The process runs on GCS by the USE_GCS flag alone.
C7_Witness ==
    /\ pc = "running" /\ facade.client = "gcs"
    /\ ~Truthy(env["GCS_PROJECT_ID"]) /\ Truthy(env["USE_GCS"])

\* C8: addS3Redirect never raises; on a backend other than S3 it issues no
\* provider write and returns absent; on S3 it returns the acknowledgment of a
\* write that succeeds and absent for one that fails.
C8_RedirectNeverRaises ==
    ret.op = "addS3Redirect" =>
        /\ ~ret.raised
        /\ config.storageBackend # "s3" => ret.calls = <<>> /\ ret.result.kind = "absent"
        /\ config.storageBackend = "s3" =>
              /\ Len(ret.calls) = 1 /\ ret.calls[1].api = "s3.putObject"
              /\ ret.fault = "none" => ret.result.kind = "some" /\ Target = Object(<<>>)
              /\ ret.fault = "write" => ret.result.kind = "absent"

\* A redirect has been written on S3 and acknowledged.
C8_Witness ==
    /\ ret.op = "addS3Redirect" /\ config.storageBackend = "s3"
    /\ ret.fault = "none" /\ ret.result.kind = "some"

\* C9 as stated: for both variants an uploadFile whose options omit acl writes
\* the object non-public; the object is public only when the caller passed
\* acl = public-read.
C9_PublicOnlyOnRequest ==
    (ret.op = "uploadFile" /\ MadePublic) => ret.acl = "public-read"

\* C10 as stated: for both variants the bucket and key of every UploadResult
\* are the caller's bucket and key.
C10_ResultEchoesInput ==
    (ret.op \in { "uploadFile", "uploadArtifact" } /\ ret.result.kind = "some")
        => ret.result.val.bucket = ret.bucket /\ ret.result.val.key = ret.key

\* The environment variables behind the required fields of the active backend.
ActiveFields ==
    IF Truthy(env["GCS_PROJECT_ID"]) \/ Truthy(env["USE_GCS"])
    THEN { "GCS_PROJECT_ID", "GCS_BUCKET", "GCS_IMPORTS_BUCKET" }
    ELSE { "AWS_ACCESS_KEY_ID", "AWS_SECRET_ACCESS_KEY",
           "S3_BUCKET", "IMPORTS_S3_BUCKET", "S3_REGION" }

\* The field of the loaded configuration that a variable is read into.
ConfigField(v) ==
    CASE v = "GCS_PROJECT_ID"        -> config.gcs.projectId
      [] v = "GCS_BUCKET"            -> config.gcs.bucket
      [] v = "GCS_IMPORTS_BUCKET"    -> config.gcs.imports_bucket
      [] v = "AWS_ACCESS_KEY_ID"     -> config.aws.access_key
      [] v = "AWS_SECRET_ACCESS_KEY" -> config.aws.secret_key
      [] v = "S3_BUCKET"             -> config.s3.bucket
      [] v = "IMPORTS_S3_BUCKET"     -> config.s3.imports_bucket
      [] v = "S3_REGION"             -> config.s3.region

\* The process runs its tests or the command line tool.
TestOrCli == env["NODE_ENV"] = "test" \/ cli

\* No module after the config module has been evaluated.
NotStarted ==
    pc \in { "config", "failed" } /\ clients = {} /\ facade = NoFacade /\ awsS3 = "unloaded"

\* C11 as stated: if a required field of the active backend is missing from the
\* environment, startup fails before any storage client exists, and no storage
\* operation is reachable with a missing or placeholder field.
C11_MissingFieldFailsStartup ==
    (\E v \in ActiveFields : ~Truthy(env[v])) => clients = {} /\ pc # "running"

\* What the config module does guarantee: outside the tests and the command
\* line tool, a required field of the active backend that is unset or empty
\* makes startup fail before any storage client exists, and once the module is
\* loaded every such field holds the value of the environment; in the tests
\* and the command line tool a missing field is the placeholder 'noop' and
\* startup goes on.
MissingFieldFailsOutsideTests ==
    /\ (~TestOrCli /\ \E v \in ActiveFields : ~Truthy(env[v])) => NotStarted
    /\ pc \in { "storage", "aws", "running" } =>
          \A v \in ActiveFields :
              /\ Truthy(env[v]) => ConfigField(v) = env[v]
              /\ ~Truthy(env[v]) => TestOrCli /\ ConfigField(v) = "noop"

\* The positions of the make-public calls among the last operation's calls.
MakePublicCalls == { i \in DOMAIN ret.calls : ret.calls[i].api = "gcs.makePublic" }

\* C12: on GCS an uploadFile with acl = public-read issues the make-public call
\* only after the write has succeeded, and an uploadFile with another acl
\* issues none; when the write succeeds and the make-public call fails,
\* uploadFile returns absent and the object stays stored with the new body.
C12_MakePublicAfterWrite ==
    (ret.op \in { "uploadFile", "uploadArtifact" } /\ facade.client = "gcs") =>
        /\ ret.acl # "public-read" => MakePublicCalls = {}
        /\ ret.fault = "write" => MakePublicCalls = {}
        /\ (ret.acl = "public-read" /\ ret.fault # "write") =>
              /\ MakePublicCalls = { 2 } /\ Len(ret.calls) = 2
              /\ ret.calls[1].api = "gcs.save"
              /\ Target = Object(ret.body)
        /\ ret.fault = "makePublic" =>
              /\ ret.result.kind = "absent" /\ ~ret.raised
              /\ Target = Object(ret.body)

\* On GCS the make-public call of an upload has failed after a non-empty body
\* was written: the upload returned absent and the body is stored.
C12_Witness ==
    /\ ret.op = "uploadFile" /\ facade.client = "gcs" /\ ret.acl = "public-read"
    /\ ret.fault = "makePublic" /\ ret.body # <<>>
    /\ ret.result.kind = "absent" /\ Target = Object(ret.body)

\* The provider whose client a call was issued on.
CallVariant(call) ==
    IF call.api \in { "gcs.save", "gcs.makePublic", "gcs.download", "gcs.delete", "gcs.exists" }
    THEN "gcs" ELSE "s3"

\* C13 as stated: in the running process exactly one storage client has been
\* constructed, by the facade, of the selected backend's variant; no other
\* component has constructed a provider client, and no operation addresses a
\* client of the inactive backend.
C13_OneClientByFacade ==
    pc = "running" =>
        /\ clients = { << "storage", config.storageBackend >> }
        /\ ret.op # "none" =>
              \A i \in DOMAIN ret.calls : CallVariant(ret.calls[i]) = config.storageBackend

====
